---- MODULE Spec2Model ----
(***************************************************************************)
(* Listing lifecycle of the marketplace backend: the Listing status state  *)
(* machine with its timestamp side effects and business rules              *)
(* (backend/listings/models.py), the ListingImage primary-image            *)
(* constraint, and the REST handlers that drive them                       *)
(* (backend/listings/views.py, backend/locations/views.py).                *)
(*                                                                         *)
(* A request is handled by a worker in steps, one per database access:     *)
(* an update loads the row, Listing.save reads the persisted status and    *)
(* validates, and Model.save writes the whole row.  No handler opens a     *)
(* transaction or locks a row, so the steps of different workers           *)
(* interleave freely.  Listing requests never write an image and image     *)
(* requests never write a listing; the specifications follow that split:   *)
(*   SpecListingsSeq  one worker, listing and city requests of every body  *)
(*   SpecListings     concurrent workers, listing requests                 *)
(*   SpecImages       concurrent workers, image requests over listings     *)
(*                    that are created and deleted                         *)
(*   SpecMarket       one worker, requests on listings and their images,   *)
(*                    reads included, by callers of every kind             *)
(***************************************************************************)
EXTENDS Integers, FiniteSets, Sequences, TLC

\* ------------------------------------------------------------------ bounds
NumWorkers == 2
NumUsers == 1
NumRegions == 2
NumCities == 1
MaxListings == 1
MaxGalleries == 2
MaxImages == 2
MaxClock == 3
MaxPrice == 0
MaxSortOrder == 1

Workers == 1..NumWorkers
\* user 0 is the staff account, the others are ordinary users
Users == 0..NumUsers
Regions == 1..NumRegions
Cities == 1..NumCities
\* the region every city starts in
InitialRegion(c) == ((c - 1) % NumRegions) + 1
ListingIds == 1..MaxGalleries
ImageIds == 1..MaxImages

\* A nullable column holds {} (NULL) or a one-element set.
Null == {}
Prices == {Null} \cup {{v} : v \in -1..MaxPrice}
Times == {Null} \cup {{t} : t \in 1..MaxClock}

\* --------------------------------------------------- listings/models.py
DRAFT == "draft"
ACTIVE == "active"
SOLD == "sold"
ARCHIVED == "archived"
ListingStatus == {DRAFT, ACTIVE, SOLD, ARCHIVED}
\* previous_status = None
NoStatus == "none"

STATUS_TRANSITIONS_ArchivedReopens(s) ==
    CASE s = DRAFT -> {ACTIVE, ARCHIVED}
      [] s = ACTIVE -> {SOLD, ARCHIVED}
      [] s = SOLD -> {ARCHIVED}
      [] s = ARCHIVED -> {ACTIVE}
      [] OTHER -> {}

\* a graph in which a draft may be sold without having been published
STATUS_TRANSITIONS_DraftSells(s) ==
    CASE s = DRAFT -> {ACTIVE, SOLD, ARCHIVED}
      [] s = ACTIVE -> {SOLD, ARCHIVED}
      [] s = SOLD -> {ARCHIVED}
      [] s = ARCHIVED -> {}
      [] OTHER -> {}

\* STATUS_TRANSITIONS.get(status, set())
STATUS_TRANSITIONS(s) ==
    CASE s = DRAFT -> {ACTIVE, ARCHIVED}
      [] s = ACTIVE -> {SOLD, ARCHIVED}
      [] s = SOLD -> {ARCHIVED}
      [] s = ARCHIVED -> {}
      [] OTHER -> {}

\* Listing(status=status).can_transition_to(new_status)
can_transition_to(status, new_status) ==
    IF new_status = status THEN TRUE
    ELSE new_status \in STATUS_TRANSITIONS(status)

\* clean without its first rule
clean_NoRegionRule(inst) ==
    IF inst.status \in {ACTIVE, SOLD} /\ inst.price_amount = Null
    THEN {"PriceRequired"} ELSE {}

\* Listing.clean: the first violated rule raises, the second is then not looked at.
\* inst.city_region is the region_id of the City object the instance holds.
clean(inst) ==
    IF inst.city_region # inst.region THEN {"ReferentialMismatch"}
    ELSE IF inst.status \in {ACTIVE, SOLD} /\ inst.price_amount = Null
         THEN {"PriceRequired"}
         ELSE {}

\* CheckConstraint listing_price_non_negative: price_amount >= 0 or NULL
listing_price_non_negative(inst) ==
    \A v \in inst.price_amount : v >= 0

\* ------------------------------------------------------------------- state
VARIABLES
    cityRegion,            \* City.region_id of every city (locations/models.py)
    listings,              \* the listings table: id -> row
    nextListingId,         \* the table's AutoField sequence
    images,                \* the listing images table: id -> row
    nextImageId,
    clock,                 \* timezone.now()
    pc,                    \* where each worker is in its request
    ctx,                   \* the model instance a worker holds for its request
    resp                   \* the response the last step sent, if it sent one

vars == <<cityRegion, listings, nextListingId, images, nextImageId, clock,
          pc, ctx, resp>>

Staff == {0}
is_staff(u) == u \in Staff

\* an instance not bound to anything (no request in flight)
NoInst == [pk |-> 0, owner |-> 0, region |-> 1, city |-> 1, city_region |-> 1,
           price_amount |-> Null, status |-> DRAFT, updated_at |-> Null,
           published_at |-> Null, sold_at |-> Null, archived_at |-> Null]
NoImg == [pk |-> 0, listing |-> 0, sort_order |-> 0, is_primary |-> FALSE]
\* user is request.user of an image request; the steps of a listing request
\* after its permission check are the same for every caller, and its context
\* leaves the caller out
Idle == [inst |-> NoInst, img |-> NoImg, previous_status |-> NoStatus, user |-> 0]
\* no response: the step was internal to a request
NoResp == [op |-> "none", inst |-> NoInst, img |-> NoImg,
           previous_status |-> NoStatus, errs |-> {}, list |-> <<>>]

now == clock

\* self.full_clean(): clean_fields, clean, validate_unique, validate_constraints
\* (Django 4.1 and later); the errors of the stages are collected into one
\* ValidationError.  The fields of a listing have no validator of their own.
full_clean(inst) ==
    clean(inst) \cup
    (IF ~listing_price_non_negative(inst) THEN {"NegativePrice"} ELSE {})

\* every save in a state stamps the state's timestamp again
apply_status_timestamps_Restamp(inst, previous_status) ==
    [inst EXCEPT
       !.published_at = IF inst.status = ACTIVE THEN {now} ELSE @,
       !.sold_at = IF inst.status = SOLD THEN {now} ELSE @,
       !.archived_at = IF inst.status = ARCHIVED THEN {now} ELSE @]

\* leaving draft for any state counts as the publication too
apply_status_timestamps_LeavingDraftPublishes(inst, previous_status) ==
    [inst EXCEPT
       !.published_at = IF inst.status # DRAFT /\ previous_status # inst.status
                        THEN (IF @ # Null THEN @ ELSE {now}) ELSE @,
       !.sold_at = IF inst.status = SOLD /\ previous_status # SOLD
                   THEN (IF @ # Null THEN @ ELSE {now}) ELSE @,
       !.archived_at = IF inst.status = ARCHIVED /\ previous_status # ARCHIVED
                       THEN (IF @ # Null THEN @ ELSE {now}) ELSE @]

\* Listing._apply_status_timestamps: "x = x or now"
apply_status_timestamps(inst, previous_status) ==
    [inst EXCEPT
       !.published_at = IF inst.status = ACTIVE /\ previous_status # ACTIVE
                        THEN (IF @ # Null THEN @ ELSE {now}) ELSE @,
       !.sold_at = IF inst.status = SOLD /\ previous_status # SOLD
                   THEN (IF @ # Null THEN @ ELSE {now}) ELSE @,
       !.archived_at = IF inst.status = ARCHIVED /\ previous_status # ARCHIVED
                       THEN (IF @ # Null THEN @ ELSE {now}) ELSE @]

\* The row Model.save writes for an instance: every column, updated_at = now
\* (auto_now).
RowOf(inst) ==
    [owner |-> inst.owner, region |-> inst.region, city |-> inst.city,
     price_amount |-> inst.price_amount, status |-> inst.status,
     updated_at |-> {now}, published_at |-> inst.published_at,
     sold_at |-> inst.sold_at, archived_at |-> inst.archived_at]

\* The instance a queryset returns for row l, its city fetched with it
\* (select_related).  updated_at is left out of an instance in flight: auto_now
\* overwrites it in every save.
InstanceOf(l) ==
    LET r == listings[l] IN
    [pk |-> l, owner |-> r.owner, region |-> r.region, city |-> r.city,
     city_region |-> cityRegion[r.city], price_amount |-> r.price_amount,
     status |-> r.status, updated_at |-> Null,
     published_at |-> r.published_at, sold_at |-> r.sold_at,
     archived_at |-> r.archived_at]

\* The writable fields of ListingSerializer a request body may carry; each is
\* absent ({}) or present ({value}).  owner and the timestamps are read-only.
ListingData ==
    [status : {{}} \cup {{s} : s \in ListingStatus},
     price_amount : {{}} \cup {{v} : v \in Prices},
     region : {{}} \cup {{r} : r \in Regions},
     city : {{}} \cup {{c} : c \in Cities}]

\* A request body for ListingSerializer: the writable fields and owner, which a
\* client may send as well.
ListingBody ==
    [status : {{}} \cup {{s} : s \in ListingStatus},
     price_amount : {{}} \cup {{v} : v \in Prices},
     region : {{}} \cup {{r} : r \in Regions},
     city : {{}} \cup {{c} : c \in Cities},
     owner : {{}} \cup {{u} : u \in Users}]

\* the fields of a body ListingSerializer declares read-only
ListingReadOnly == {"owner", "updated_at", "published_at", "sold_at", "archived_at"}

\* a serializer that takes owner from the body like any other field
validated_data_OwnerWritable(body) == body

\* serializer.validated_data: the read-only fields of the body are dropped
validated_data(body) ==
    [f \in DOMAIN body \ ListingReadOnly |-> body[f]]

Given(field, old) == IF field = {} THEN old ELSE CHOOSE v \in field : TRUE

\* ModelSerializer.update: setattr for every validated field; a city in the body
\* is the City object the serializer has just looked up.
SetAttrs(inst, data) ==
    LET city == Given(data.city, inst.city) IN
    [inst EXCEPT !.owner = IF "owner" \in DOMAIN data THEN Given(data.owner, @)
                            ELSE @,
                 !.status = Given(data.status, @),
                 !.price_amount = Given(data.price_amount, @),
                 !.region = Given(data.region, @),
                 !.city = city,
                 !.city_region = IF data.city = {} THEN @ ELSE cityRegion[city]]

\* the request ends: the response goes out, the worker is free again
Respond(p, op, inst, prev, errs) ==
    /\ pc' = [pc EXCEPT ![p] = "idle"]
    /\ ctx' = [ctx EXCEPT ![p] = Idle]
    /\ resp' = [op |-> op, inst |-> inst, img |-> NoImg,
                previous_status |-> prev, errs |-> errs, list |-> <<>>]

\* a worker takes a request when it has none in hand
MayStart(p) == pc[p] = "idle"

\* The transition check of Listing.save for an instance with no pk: it is made
\* against a draft listing.
TransitionErrsNew_NoCheck(inst) == {}

TransitionErrsNew(inst) ==
    IF inst.status # DRAFT /\ ~can_transition_to(DRAFT, inst.status)
    THEN {"InvalidTransition"} ELSE {}

\* ListingViewSet.create -> perform_create -> Listing.save with pk = None:
\* transition check against draft, full_clean, timestamps, INSERT (the table's
\* check constraint applies).
CreateListing(p, caller, data, limit) ==
    /\ MayStart(p)
    /\ data.region # {} /\ data.city # {}
    /\ nextListingId <= limit /\ clock <= MaxClock
    /\ LET new == [SetAttrs(NoInst, data) EXCEPT !.owner = caller]
           terrs == TransitionErrsNew(new)
           cerrs == IF terrs # {} THEN terrs ELSE full_clean(new)
           stamped == apply_status_timestamps(new, NoStatus)
           errs == IF cerrs # {} THEN cerrs
                   ELSE IF ~listing_price_non_negative(new) THEN {"NegativePrice"}
                   ELSE {}
       IN IF errs # {}
          THEN /\ Respond(p, "create_listing", new, NoStatus, errs)
               /\ UNCHANGED <<listings, nextListingId, clock>>
          ELSE /\ listings' = [l \in DOMAIN listings \cup {nextListingId} |->
                                 IF l = nextListingId THEN RowOf(stamped)
                                 ELSE listings[l]]
               /\ nextListingId' = nextListingId + 1
               /\ clock' = clock + 1
               /\ Respond(p, "create_listing",
                          [stamped EXCEPT !.pk = nextListingId,
                                          !.updated_at = {now}], NoStatus, {})
    /\ UNCHANGED <<cityRegion, images, nextImageId>>

\* a permission that lets every authenticated caller write
has_object_permission_AnyUser(caller, owner_id) == TRUE

\* IsOwnerOrAdmin.has_object_permission for an unsafe method
has_object_permission(caller, owner_id) ==
    is_staff(caller) \/ owner_id = caller

\* permissions.SAFE_METHODS
SAFE_METHODS == {"GET", "HEAD", "OPTIONS"}

\* the caller of a request that carries no credentials
Anonymous == -1
Callers == Users \cup {Anonymous}

\* IsAuthenticatedOrReadOnly.has_permission, then
\* IsOwnerOrAdmin.has_object_permission
IsOwnerOrAdmin(method, caller, owner_id) ==
    \/ method \in SAFE_METHODS
    \/ caller # Anonymous /\ has_object_permission(caller, owner_id)

\* ListingViewSet.update, up to serializer.update's setattr: get_object loads the
\* row (404 when it is gone), the permission is checked, the body is validated
\* and set on the instance.
LoadListing(p, caller, l, data) ==
    /\ MayStart(p)
    /\ l \in DOMAIN listings
    /\ IF ~has_object_permission(caller, listings[l].owner)
       THEN Respond(p, "update_listing", InstanceOf(l), NoStatus,
                    {"PermissionDenied"})
       ELSE /\ pc' = [pc EXCEPT ![p] = "loaded"]
            /\ ctx' = [ctx EXCEPT ![p] =
                         [inst |-> SetAttrs(InstanceOf(l), data), img |-> NoImg,
                          previous_status |-> NoStatus, user |-> 0]]
            /\ resp' = NoResp
    /\ UNCHANGED <<cityRegion, listings, nextListingId, images, nextImageId, clock>>

\* a save that writes the row before full_clean has looked at it
ValidateListing_WritesBeforeCleaning(p) ==
    /\ pc[p] = "loaded"
    /\ LET inst == ctx[p].inst
           previous_status == IF inst.pk \in DOMAIN listings
                              THEN listings[inst.pk].status ELSE NoStatus
           terrs == IF previous_status # NoStatus /\ previous_status # inst.status
                       /\ ~can_transition_to(previous_status, inst.status)
                    THEN {"InvalidTransition"} ELSE {}
           errs == IF terrs # {} THEN terrs ELSE full_clean(inst)
       IN IF errs # {}
          THEN /\ Respond(p, "update_listing", inst, previous_status, errs)
               /\ listings' = IF terrs # {} THEN listings
                               ELSE [l \in DOMAIN listings \cup {inst.pk} |->
                                       IF l = inst.pk THEN RowOf(inst)
                                       ELSE listings[l]]
          ELSE /\ pc' = [pc EXCEPT ![p] = "validated"]
               /\ ctx' = [ctx EXCEPT ![p].inst =
                                        apply_status_timestamps(inst, previous_status),
                                     ![p].previous_status = previous_status]
               /\ resp' = NoResp
               /\ UNCHANGED listings
    /\ UNCHANGED <<cityRegion, nextListingId, images, nextImageId, clock>>

\* a save that lets through the edges of STATUS_TRANSITIONS only, the persisted
\* status itself not among them
ValidateListing_EdgesOnly(p) ==
    /\ pc[p] = "loaded"
    /\ LET inst == ctx[p].inst
           previous_status == IF inst.pk \in DOMAIN listings
                              THEN listings[inst.pk].status ELSE NoStatus
           terrs == IF previous_status # NoStatus
                       /\ inst.status \notin STATUS_TRANSITIONS(previous_status)
                    THEN {"InvalidTransition"} ELSE {}
           errs == IF terrs # {} THEN terrs ELSE full_clean(inst)
       IN IF errs # {}
          THEN Respond(p, "update_listing", inst, previous_status, errs)
          ELSE /\ pc' = [pc EXCEPT ![p] = "validated"]
               /\ ctx' = [ctx EXCEPT ![p].inst =
                                        apply_status_timestamps(inst, previous_status),
                                     ![p].previous_status = previous_status]
               /\ resp' = NoResp
    /\ UNCHANGED <<cityRegion, listings, nextListingId, images, nextImageId, clock>>

\* Listing.save with a pk, up to Model.save: the persisted status is read, the
\* transition is checked against it, full_clean runs, the timestamps are set.
ValidateListing(p) ==
    /\ pc[p] = "loaded"
    /\ LET inst == ctx[p].inst
           previous_status == IF inst.pk \in DOMAIN listings
                              THEN listings[inst.pk].status ELSE NoStatus
           terrs == IF previous_status # NoStatus /\ previous_status # inst.status
                       /\ ~can_transition_to(previous_status, inst.status)
                    THEN {"InvalidTransition"} ELSE {}
           errs == IF terrs # {} THEN terrs ELSE full_clean(inst)
       IN IF errs # {}
          THEN Respond(p, "update_listing", inst, previous_status, errs)
          ELSE /\ pc' = [pc EXCEPT ![p] = "validated"]
               /\ ctx' = [ctx EXCEPT ![p].inst =
                                        apply_status_timestamps(inst, previous_status),
                                     ![p].previous_status = previous_status]
               /\ resp' = NoResp
    /\ UNCHANGED <<cityRegion, listings, nextListingId, images, nextImageId, clock>>

\* Model.save of a loaded instance: UPDATE of every column where id = pk and,
\* when no row matched, INSERT; the table's check constraint applies.
PersistListing(p) ==
    /\ pc[p] = "validated"
    /\ clock <= MaxClock
    /\ LET inst == ctx[p].inst IN
       IF ~listing_price_non_negative(inst)
       THEN /\ Respond(p, "update_listing", inst,
                       ctx[p].previous_status, {"NegativePrice"})
            /\ UNCHANGED <<listings, clock>>
       ELSE /\ listings' = [l \in DOMAIN listings \cup {inst.pk} |->
                              IF l = inst.pk THEN RowOf(inst) ELSE listings[l]]
            /\ clock' = clock + 1
            /\ Respond(p, "update_listing",
                       [inst EXCEPT !.updated_at = {now}],
                       ctx[p].previous_status, {})
    /\ UNCHANGED <<cityRegion, nextListingId, images, nextImageId>>

\* ListingViewSet.destroy: get_object, permission, DELETE; the images of the
\* listing go with it (on_delete=CASCADE).
DeleteListing(p, caller, l) ==
    /\ MayStart(p)
    /\ l \in DOMAIN listings
    /\ IF ~has_object_permission(caller, listings[l].owner)
       THEN /\ Respond(p, "delete_listing", InstanceOf(l), NoStatus,
                       {"PermissionDenied"})
            /\ UNCHANGED <<listings, images>>
       ELSE /\ listings' = [k \in DOMAIN listings \ {l} |-> listings[k]]
            /\ images' = [i \in {j \in DOMAIN images : images[j].listing # l} |->
                            images[i]]
            /\ Respond(p, "delete_listing", InstanceOf(l), NoStatus, {})
    /\ UNCHANGED <<cityRegion, nextListingId, nextImageId, clock>>

\* CityViewSet.update (IsAdminOrReadOnly): staff moves a city to another region.
UpdateCity(p, caller, c, r) ==
    /\ MayStart(p)
    /\ IF ~is_staff(caller)
       THEN /\ Respond(p, "update_city", NoInst, NoStatus,
                       {"PermissionDenied"})
            /\ UNCHANGED cityRegion
       ELSE /\ cityRegion' = [cityRegion EXCEPT ![c] = r]
            /\ Respond(p, "update_city", NoInst, NoStatus, {})
    /\ UNCHANGED <<listings, nextListingId, images, nextImageId, clock>>

\* ------------------------------------------------------- listing images
\* The writable fields of ListingImageSerializer.
ImageData ==
    [listing : {{}} \cup {{l} : l \in ListingIds},
     sort_order : {{}} \cup {{n} : n \in 0..MaxSortOrder},
     is_primary : {{}} \cup {{b} : b \in BOOLEAN}]

SetImageAttrs(img, data) ==
    [img EXCEPT !.listing = Given(data.listing, @),
                !.sort_order = Given(data.sort_order, @),
                !.is_primary = Given(data.is_primary, @)]

ImageRowOf(img) ==
    [listing |-> img.listing, sort_order |-> img.sort_order,
     is_primary |-> img.is_primary]

ImageInstanceOf(i) ==
    [pk |-> i, listing |-> images[i].listing, sort_order |-> images[i].sort_order,
     is_primary |-> images[i].is_primary]

RespondImage(p, op, img, errs) ==
    /\ pc' = [pc EXCEPT ![p] = "idle"]
    /\ ctx' = [ctx EXCEPT ![p] = Idle]
    /\ resp' = [op |-> op, inst |-> NoInst, img |-> img,
                previous_status |-> NoStatus, errs |-> errs, list |-> <<>>]

unique_primary_listing_image_Unconstrained(img) == TRUE

\* UniqueConstraint unique_primary_listing_image: no two rows with is_primary of
\* one listing; the database checks the row being written against the others.
unique_primary_listing_image(img) ==
    img.is_primary =>
        \A j \in DOMAIN images \ {img.pk} :
            ~(images[j].listing = img.listing /\ images[j].is_primary)

\* the uniqueness is looked at for the rows already stored only, not for a new one
ImageWriteErrs_UpdatesOnly(img) ==
    IF img.listing \notin DOMAIN listings THEN {"IntegrityError"}
    ELSE IF img.pk # 0 /\ ~unique_primary_listing_image(img)
         THEN {"PrimaryImageConflict"}
         ELSE {}

\* What the database answers to the INSERT or UPDATE of an image row.
ImageWriteErrs(img) ==
    IF img.listing \notin DOMAIN listings THEN {"IntegrityError"}
    ELSE IF ~unique_primary_listing_image(img) THEN {"PrimaryImageConflict"}
    ELSE {}

\* ListingImageViewSet.create, up to serializer.save: the body is validated (the
\* listing must exist) and perform_create checks the caller against its owner.
BeginCreateImage(p, caller, data) ==
    /\ MayStart(p)
    /\ data.listing # {}
    /\ nextImageId <= MaxImages
    /\ LET img == SetImageAttrs(NoImg, data) IN
       IF img.listing \notin DOMAIN listings
       THEN RespondImage(p, "create_image", img, {"NotFound"})
       ELSE IF ~is_staff(caller) /\ listings[img.listing].owner # caller
       THEN RespondImage(p, "create_image", img, {"PermissionDenied"})
       ELSE /\ pc' = [pc EXCEPT ![p] = "image_new"]
            /\ ctx' = [ctx EXCEPT ![p].img = img, ![p].user = caller]
            /\ resp' = NoResp
    /\ UNCHANGED <<cityRegion, listings, nextListingId, images, nextImageId, clock>>

\* serializer.save of a new image: INSERT
InsertImage(p) ==
    /\ pc[p] = "image_new"
    /\ nextImageId <= MaxImages
    /\ LET img == ctx[p].img
           errs == ImageWriteErrs(img)
       IN IF errs # {}
          THEN /\ RespondImage(p, "create_image", img, errs)
               /\ UNCHANGED <<images, nextImageId>>
          ELSE /\ images' = [i \in DOMAIN images \cup {nextImageId} |->
                               IF i = nextImageId THEN ImageRowOf(img)
                               ELSE images[i]]
               /\ nextImageId' = nextImageId + 1
               /\ RespondImage(p, "create_image", [img EXCEPT !.pk = nextImageId], {})
    /\ UNCHANGED <<cityRegion, listings, nextListingId, clock>>

\* ListingImageViewSet.update, up to serializer.update's setattr: get_object loads
\* the image (404 when it is gone), has_object_permission looks at the owner of
\* the listing the image is in, the body is validated and set on the instance.
LoadImage(p, caller, i, data) ==
    /\ MayStart(p)
    /\ IF i \notin DOMAIN images
       THEN RespondImage(p, "update_image", [NoImg EXCEPT !.pk = i], {"NotFound"})
       ELSE IF ~has_object_permission(caller, listings[images[i].listing].owner)
       THEN RespondImage(p, "update_image", ImageInstanceOf(i), {"PermissionDenied"})
       ELSE LET img == SetImageAttrs(ImageInstanceOf(i), data) IN
            IF img.listing \notin DOMAIN listings
            THEN RespondImage(p, "update_image", img, {"NotFound"})
            ELSE /\ pc' = [pc EXCEPT ![p] = "image_loaded"]
                 /\ ctx' = [ctx EXCEPT ![p].img = img, ![p].user = caller]
                 /\ resp' = NoResp
    /\ UNCHANGED <<cityRegion, listings, nextListingId, images, nextImageId, clock>>

\* Model.save of a loaded image: UPDATE of every column and, when no row
\* matched, INSERT
SaveImage(p) ==
    /\ pc[p] = "image_loaded"
    /\ LET img == ctx[p].img
           errs == ImageWriteErrs(img)
       IN IF errs # {}
          THEN /\ RespondImage(p, "update_image", img, errs)
               /\ UNCHANGED images
          ELSE /\ images' = [i \in DOMAIN images \cup {img.pk} |->
                               IF i = img.pk THEN ImageRowOf(img) ELSE images[i]]
               /\ RespondImage(p, "update_image", img, {})
    /\ UNCHANGED <<cityRegion, listings, nextListingId, nextImageId, clock>>

\* ListingImageViewSet.destroy
DeleteImage(p, caller, i) ==
    /\ MayStart(p)
    /\ i \in DOMAIN images
    /\ IF ~has_object_permission(caller, listings[images[i].listing].owner)
       THEN /\ RespondImage(p, "delete_image", ImageInstanceOf(i), {"PermissionDenied"})
            /\ UNCHANGED images
       ELSE /\ images' = [j \in DOMAIN images \ {i} |-> images[j]]
            /\ RespondImage(p, "delete_image", ImageInstanceOf(i), {})
    /\ UNCHANGED <<cityRegion, listings, nextListingId, nextImageId, clock>>

\* an ordering that leaves images of equal sort_order in any order
ordering_SortOrderOnly(i) == <<images[i].sort_order>>

\* ListingImage.Meta.ordering = ["sort_order", "id"]: the sort key of image i
ordering(i) == <<images[i].sort_order, i>>

\* ORDER BY: a key sorts at or before another, field by field
RECURSIVE OrderedBefore(_, _)
OrderedBefore(a, b) ==
    IF a = <<>> \/ b = <<>> THEN TRUE
    ELSE IF Head(a) # Head(b) THEN Head(a) < Head(b)
    ELSE OrderedBefore(Tail(a), Tail(b))

\* listing.images.all(): the rows of the listing in an order the database may
\* return them in under ORDER BY, rows of equal key in any order
images_all(l) ==
    LET ids == {i \in DOMAIN images : images[i].listing = l}
        n == Cardinality(ids)
    IN {seq \in [1..n -> ids] :
          /\ \A a, b \in 1..n : a # b => seq[a] # seq[b]
          /\ \A a, b \in 1..n : a < b => OrderedBefore(ordering(seq[a]),
                                                       ordering(seq[b]))}

\* ListingViewSet.retrieve: a safe method, the listing is returned with its
\* images (ListingSerializer.images)
RetrieveListing(p, caller, l) ==
    /\ MayStart(p)
    /\ l \in DOMAIN listings
    /\ IF ~IsOwnerOrAdmin("GET", caller, listings[l].owner)
       THEN Respond(p, "retrieve_listing", InstanceOf(l), NoStatus,
                    {"PermissionDenied"})
       ELSE /\ \E seq \in images_all(l) :
                 resp' = [op |-> "retrieve_listing", inst |-> InstanceOf(l),
                          img |-> NoImg, previous_status |-> NoStatus,
                          errs |-> {}, list |-> seq]
            /\ UNCHANGED <<pc, ctx>>
    /\ UNCHANGED <<cityRegion, listings, nextListingId, images, nextImageId, clock>>

\* ------------------------------------------------------------ specifications
Init ==
    /\ cityRegion = [c \in Cities |-> InitialRegion(c)]
    /\ listings = <<>>
    /\ nextListingId = 1
    /\ images = <<>>
    /\ nextImageId = 1
    /\ clock = 1
    /\ pc = [p \in Workers |-> "idle"]
    /\ ctx = [p \in Workers |-> Idle]
    /\ resp = NoResp

\* The requests on listings; a create's body is drawn from creates, an update's
\* from updates.
ListingStep(p, creates, updates) ==
    \/ \E caller \in Users, data \in creates :
          CreateListing(p, caller, data, MaxListings)
    \/ \E caller \in Users, l \in ListingIds, data \in updates :
          LoadListing(p, caller, l, data)
    \/ ValidateListing(p)
    \/ PersistListing(p)
    \/ \E caller \in Users, l \in ListingIds : DeleteListing(p, caller, l)

CityStep(p) ==
    \E caller \in Users, c \in Cities, r \in Regions : UpdateCity(p, caller, c, r)

\* One worker: every request runs to its response before the next starts.
NextListingsSeq == ListingStep(1, ListingData, ListingData) \/ CityStep(1)
SpecListingsSeq == Init /\ [][NextListingsSeq]_vars

\* Workers handle listing requests concurrently; the bodies vary the status and
\* the price: a create names city 1 and its region, an update is a PATCH of the
\* status, the price or both.
HomeData == {d \in ListingData : d.region = {InitialRegion(1)} /\ d.city = {1}}
StatusData == {d \in ListingData : d.region = {} /\ d.city = {}}
NextListings == \E p \in Workers : ListingStep(p, HomeData, StatusData)
SpecListings == Init /\ [][NextListings]_vars

\* The requests on listing images, with the listing requests that decide which
\* listings there are: draft listings are created and deleted.
DraftData == {d \in HomeData : d.status = {} /\ d.price_amount = {}}
ImageStep(p, bodies) ==
    \/ \E caller \in Users, data \in DraftData :
          CreateListing(p, caller, data, MaxGalleries)
    \/ \E caller \in Users, l \in ListingIds : DeleteListing(p, caller, l)
    \/ \E caller \in Users, data \in bodies : BeginCreateImage(p, caller, data)
    \/ InsertImage(p)
    \/ \E caller \in Users, i \in ImageIds, data \in bodies :
          LoadImage(p, caller, i, data)
    \/ SaveImage(p)
    \/ \E caller \in Users, i \in ImageIds : DeleteImage(p, caller, i)

\* Workers handle image requests concurrently; the bodies leave sort_order at its
\* default.
PrimaryData == {d \in ImageData : d.sort_order = {}}
NextImages == \E p \in Workers : ImageStep(p, PrimaryData)
SpecImages == Init /\ [][NextImages]_vars

\* One worker takes every kind of request on listings and their images: draft
\* listings are created in city 1 and patched in their price, by bodies that may
\* name an owner; images are created, moved and reordered; listings are read.
DraftBodies ==
    {b \in ListingBody : /\ b.region = {InitialRegion(1)} /\ b.city = {1}
                         /\ b.status = {} /\ b.price_amount = {}}
PriceBodies ==
    {b \in ListingBody : b.region = {} /\ b.city = {} /\ b.status = {}}
OrderData == {d \in ImageData : d.is_primary = {}}
NextMarket ==
    \/ ListingStep(1, {validated_data(b) : b \in DraftBodies},
                      {validated_data(b) : b \in PriceBodies})
    \/ ImageStep(1, OrderData)
    \/ \E caller \in Callers, l \in ListingIds : RetrieveListing(1, caller, l)
SpecMarket == Init /\ [][NextMarket]_vars

\* ------------------------------------------------------------------ claims
\* The transition graph of the specification, section 4.1.
AllowedEdges ==
    {<<DRAFT, ACTIVE>>, <<DRAFT, ARCHIVED>>, <<ACTIVE, SOLD>>, <<ACTIVE, ARCHIVED>>,
     <<SOLD, ARCHIVED>>}

\* the listings a step keeps
Kept == DOMAIN listings \cap DOMAIN listings'
\* the listings a step writes: inserted, or some column changed
Written == {l \in DOMAIN listings' : l \notin DOMAIN listings \/ listings'[l] # listings[l]}

\* C1: with one request at a time, a listing's persisted status changes only
\* along an edge of the graph, and an update that asks for a status that is
\* neither the persisted one nor a successor of it is refused with
\* InvalidTransition, the table left as it was; so an archived listing never
\* changes status again.
C1_SequentialEdgesOnly ==
    [][/\ \A l \in Kept :
             listings'[l].status # listings[l].status
                => <<listings[l].status, listings'[l].status>> \in AllowedEdges
       /\ \A p \in Workers :
             (/\ pc[p] = "loaded"
              /\ ctx[p].inst.pk \in DOMAIN listings
              /\ listings[ctx[p].inst.pk].status # ctx[p].inst.status
              /\ <<listings[ctx[p].inst.pk].status, ctx[p].inst.status>>
                     \notin AllowedEdges)
                => /\ resp'.op = "update_listing"
                   /\ resp'.errs = {"InvalidTransition"}
                   /\ pc'[p] = "idle"
                   /\ listings' = listings]_vars

\* an update of an archived listing to another status has just been refused
C1_Witness ==
    /\ resp.op = "update_listing"
    /\ resp.errs = {"InvalidTransition"}
    /\ resp.previous_status = ARCHIVED
    /\ resp.inst.status # ARCHIVED
    /\ resp.inst.pk \in DOMAIN listings
    /\ listings[resp.inst.pk].status = ARCHIVED

\* C2: whatever the interleaving of the requests, the statuses successively
\* persisted for a listing follow self-loops and edges of the graph only.
C2_Linearized ==
    [][\A l \in Kept :
          \/ listings'[l].status = listings[l].status
          \/ <<listings[l].status, listings'[l].status>> \in AllowedEdges]_vars

StampOf(row, status) ==
    CASE status = ACTIVE -> row.published_at
      [] status = SOLD -> row.sold_at
      [] status = ARCHIVED -> row.archived_at

\* C3: with one request at a time, a lifecycle timestamp that is persisted is
\* never changed by a later write; it is set by the write in which the status
\* enters its state, to the time of that write, and by no other write.
C3_StickyTimestamps ==
    [][\A l \in Written : \A x \in {ACTIVE, SOLD, ARCHIVED} :
          LET new == listings'[l]
              fresh == l \notin DOMAIN listings
              before == IF fresh THEN Null ELSE StampOf(listings[l], x)
              enters == new.status = x /\ (fresh \/ listings[l].status # x)
          IN /\ before # Null => StampOf(new, x) = before
             /\ (before = Null /\ enters) => StampOf(new, x) = {clock}
             /\ (before = Null /\ ~enters) => StampOf(new, x) = Null]_vars

\* an active listing was written again (same status) after its publication
C3_Witness ==
    /\ resp.op = "update_listing"
    /\ resp.errs = {}
    /\ resp.previous_status = ACTIVE
    /\ resp.inst.status = ACTIVE
    /\ resp.inst.pk \in DOMAIN listings
    /\ listings[resp.inst.pk].published_at # Null
    /\ listings[resp.inst.pk].published_at # listings[resp.inst.pk].updated_at

\* The three business rules of the specification, section 4.1, each on its own.
ViolatedRules(inst) ==
    (IF cityRegion[inst.city] # inst.region THEN {"ReferentialMismatch"} ELSE {})
    \cup (IF inst.status \in {ACTIVE, SOLD} /\ inst.price_amount = Null
          THEN {"PriceRequired"} ELSE {})
    \cup (IF \E v \in inst.price_amount : v < 0 THEN {"NegativePrice"} ELSE {})

\* A create is refused with InvalidTransition, nothing persisted, when the
\* status asked for is in refused; with any other status it passes the
\* transition check, and it succeeds and persists a row of that status exactly
\* when no business rule is violated.
CreateChecked(refused) ==
    resp'.op = "create_listing" =>
       LET new == resp'.inst IN
       /\ new.status \in refused
             => resp'.errs = {"InvalidTransition"} /\ listings' = listings
       /\ new.status \notin refused
             => /\ "InvalidTransition" \notin resp'.errs
                /\ (resp'.errs = {}) = (ViolatedRules(new) = {})
                /\ IF resp'.errs = {}
                   THEN /\ new.pk \notin DOMAIN listings
                        /\ new.pk \in DOMAIN listings'
                        /\ listings'[new.pk].status = new.status
                        /\ \A l \in DOMAIN listings : listings'[l] = listings[l]
                   ELSE listings' = listings

\* C4, as claimed: the creation of a listing succeeds with draft or active
\* (subject to the business rules) and is refused with InvalidTransition,
\* nothing persisted, with sold or archived.
C4_CreateSoldOrArchivedRefused ==
    [][CreateChecked({SOLD, ARCHIVED})]_vars

\* C4, amended: a new listing is checked as if its previous status were draft,
\* so its creation succeeds with draft, active or archived (subject to the
\* business rules; archived is a successor of draft) and is refused with
\* InvalidTransition, nothing persisted, with sold.
C4_CreateCheckedAsDraft ==
    [][CreateChecked({SOLD})]_vars

\* the creation of a listing as sold has just been refused
C4_Witness ==
    /\ resp.op = "create_listing"
    /\ resp.inst.status = SOLD
    /\ resp.inst.price_amount # Null
    /\ resp.errs = {"InvalidTransition"}
    /\ DOMAIN listings = {}

Primaries(l) == {i \in DOMAIN images : images[i].listing = l /\ images[i].is_primary}

\* C5: in every state the database goes through, whatever the interleaving of
\* the image requests, a listing has at most one image with is_primary.
C5_AtMostOnePrimary ==
    \A l \in ListingIds : Cardinality(Primaries(l)) <= 1

\* a listing holds a primary image and another image, after a write that would
\* have made a second primary was refused
C5_Witness ==
    /\ resp.errs = {"PrimaryImageConflict"}
    /\ resp.img.is_primary
    /\ \E i, j \in DOMAIN images :
          /\ i # j
          /\ images[i].listing = resp.img.listing
          /\ images[j].listing = resp.img.listing
          /\ images[i].is_primary

\* C6: a request that makes an image of a listing the primary one (an update of
\* the image with is_primary set, by a caller allowed to, the image being in the
\* listing) leaves that image the only primary image of the listing, also when
\* another image was primary before.
C6_SetPrimaryClearsOthers ==
    (/\ resp.op = "update_image"
     /\ resp.img.is_primary
     /\ resp.errs \subseteq {"PrimaryImageConflict"}
     /\ resp.img.pk \in DOMAIN images
     /\ images[resp.img.pk].listing = resp.img.listing)
        => Primaries(resp.img.listing) = {resp.img.pk}

\* the images a worker's write would leave primary beside its own
OtherPrimaries(img) ==
    {j \in DOMAIN images \ {img.pk} :
        images[j].listing = img.listing /\ images[j].is_primary}

InFlightImage(p) == pc[p] \in {"image_new", "image_loaded"}

\* C7: when a worker writes an image with is_primary (INSERT or UPDATE), its
\* listing existing: if another image of the listing is primary by then, the
\* write is refused as PrimaryImageConflict and the stored images stay as they
\* were; otherwise it succeeds and the image is the listing's one primary.  So
\* of two overlapping writes for a listing with no primary the first to reach
\* the database wins, the second is refused, and never are both primary.
C7_OverlappingPrimaryWrites ==
    [][\A p \in Workers :
          (/\ InFlightImage(p) /\ pc'[p] = "idle"
           /\ ctx[p].img.is_primary
           /\ ctx[p].img.listing \in DOMAIN listings)
             => /\ IF OtherPrimaries(ctx[p].img) # {}
                   THEN resp'.errs = {"PrimaryImageConflict"} /\ images' = images
                   ELSE /\ resp'.errs = {}
                        /\ resp'.img.pk \in DOMAIN images'
                        /\ images'[resp'.img.pk] = ImageRowOf(ctx[p].img)
                /\ \A l \in ListingIds :
                      Cardinality({i \in DOMAIN images' :
                          images'[i].listing = l /\ images'[i].is_primary}) <= 1]_vars

\* two writes of a primary image for one listing overlap, and the first has
\* just been stored: its image is the listing's primary, the other worker still
\* holds its own, begun when the listing had none
C7_Witness ==
    /\ resp.op \in {"create_image", "update_image"}
    /\ resp.errs = {}
    /\ resp.img.is_primary
    /\ Primaries(resp.img.listing) = {resp.img.pk}
    /\ \E p \in Workers :
          /\ InFlightImage(p)
          /\ ctx[p].img.is_primary
          /\ ctx[p].img.listing = resp.img.listing
          /\ ctx[p].img.pk # resp.img.pk

\* the listing writes that get as far as the business rules
RulesReached ==
    /\ resp.op \in {"create_listing", "update_listing"}
    /\ resp.errs \cap {"PermissionDenied", "InvalidTransition"} = {}

\* C8: no persisted listing is active or sold without a price, and a create or
\* update that gets as far as the business rules with an instance that is
\* active or sold without a price is refused with PriceRequired.
C8_PriceRequired ==
    /\ \A l \in DOMAIN listings :
          listings[l].status \in {ACTIVE, SOLD} => listings[l].price_amount # Null
    /\ (/\ RulesReached
        /\ resp.inst.status \in {ACTIVE, SOLD}
        /\ resp.inst.price_amount = Null)
          => "PriceRequired" \in resp.errs

\* C9: every row a listing create or update writes has its region equal to the
\* region its city is in at that time, and a create or update whose city is, at
\* that time, in another region than the instance's is refused with
\* ReferentialMismatch, the table left as it was.
C9_RegionCityRechecked ==
    [][/\ \A l \in Written : cityRegion[listings'[l].city] = listings'[l].region
       /\ (/\ resp'.op \in {"create_listing", "update_listing"}
           /\ resp'.errs \cap {"PermissionDenied", "InvalidTransition"} = {}
           /\ cityRegion[resp'.inst.city] # resp'.inst.region)
             => "ReferentialMismatch" \in resp'.errs /\ listings' = listings]_vars

\* an update that left region and city as persisted has just been refused: the
\* city was moved to another region after the listing was written
C9_Witness ==
    /\ resp.op = "update_listing"
    /\ resp.errs = {"ReferentialMismatch"}
    /\ resp.inst.pk \in DOMAIN listings
    /\ listings[resp.inst.pk].region = resp.inst.region
    /\ listings[resp.inst.pk].city = resp.inst.city
    /\ cityRegion[resp.inst.city] # resp.inst.region

\* C10: the failure a listing write reports for its business rules names every
\* rule the instance violates.
C10_CollectAll ==
    RulesReached => resp.errs = ViolatedRules(resp.inst)

\* the kinds of failure the listing state machine reports
Rejections ==
    {"InvalidTransition", "ReferentialMismatch", "PriceRequired", "NegativePrice"}

\* C11: a listing create or update that is rejected (InvalidTransition,
\* ReferentialMismatch, PriceRequired, NegativePrice) persists nothing: no step
\* of the request, from its load to its rejection, changes a row of the listings
\* table or adds one.
C11_RejectedWritesNothing ==
    [][((\/ /\ resp'.op \in {"create_listing", "update_listing"}
            /\ resp'.errs \cap Rejections # {}
         \/ \E p \in Workers : pc'[p] \in {"loaded", "validated"})
           => listings' = listings /\ nextListingId' = nextListingId)]_vars

\* an update that asked for an illegal status and another price has just been
\* rejected, and the row holds the status and the price it held
C11_Witness ==
    /\ resp.op = "update_listing"
    /\ resp.errs = {"InvalidTransition"}
    /\ resp.inst.pk \in DOMAIN listings
    /\ listings[resp.inst.pk].status = resp.previous_status
    /\ resp.inst.status # resp.previous_status
    /\ resp.inst.price_amount # listings[resp.inst.pk].price_amount

\* C12: an update whose status is the status persisted for the listing is never
\* answered with InvalidTransition, whatever that status is, and when it is
\* stored the row keeps its published_at, sold_at and archived_at and has its
\* updated_at set to the time of the write.
C12_SelfLoopIdempotent ==
    [][(/\ resp'.op = "update_listing"
        /\ resp'.previous_status = resp'.inst.status)
          => /\ "InvalidTransition" \notin resp'.errs
             /\ resp'.errs = {}
                   => LET l == resp'.inst.pk IN
                      /\ l \in Kept
                      /\ listings'[l].status = listings[l].status
                      /\ listings'[l].published_at = listings[l].published_at
                      /\ listings'[l].sold_at = listings[l].sold_at
                      /\ listings'[l].archived_at = listings[l].archived_at
                      /\ listings'[l].updated_at = {clock}]_vars

\* an archived listing has just been saved as archived again, at a later time
\* than it was archived
C12_Witness ==
    /\ resp.op = "update_listing"
    /\ resp.errs = {}
    /\ resp.previous_status = ARCHIVED
    /\ resp.inst.status = ARCHIVED
    /\ resp.inst.pk \in DOMAIN listings
    /\ listings[resp.inst.pk].status = ARCHIVED
    /\ listings[resp.inst.pk].archived_at # Null
    /\ listings[resp.inst.pk].archived_at # listings[resp.inst.pk].updated_at

\* C13: a write that is stored and changes the persisted status of a listing to
\* X (for a new listing: gives it another status than draft) leaves X's
\* timestamp set and the timestamps of the two other states as they were (null
\* for a new listing).
C13_OnlyOwnTimestamp ==
    [][\A l \in Written :
          LET new == listings'[l]
              fresh == l \notin DOMAIN listings
              old_status == IF fresh THEN DRAFT ELSE listings[l].status
          IN new.status # old_status
                => /\ StampOf(new, new.status) # Null
                   /\ \A x \in {ACTIVE, SOLD, ARCHIVED} \ {new.status} :
                         StampOf(new, x) =
                            (IF fresh THEN Null ELSE StampOf(listings[l], x))]_vars

\* a draft has just been archived directly: archived_at is set, published_at and
\* sold_at are still null
C13_Witness ==
    /\ resp.op = "update_listing"
    /\ resp.errs = {}
    /\ resp.previous_status = DRAFT
    /\ resp.inst.status = ARCHIVED
    /\ resp.inst.pk \in DOMAIN listings
    /\ listings[resp.inst.pk].status = ARCHIVED
    /\ listings[resp.inst.pk].archived_at # Null
    /\ listings[resp.inst.pk].published_at = Null
    /\ listings[resp.inst.pk].sold_at = Null

\* caller is a user who is neither staff nor the owner of listing l
Stranger(caller, l) ==
    /\ l \in DOMAIN listings
    /\ caller \notin Staff
    /\ listings[l].owner # caller

Refused ==
    /\ resp'.errs = {"PermissionDenied"}
    /\ listings' = listings
    /\ images' = images

\* worker p takes a request on listing l, or on image i, in this step: the step
\* leaves it in p's response or in the instance p holds
TakesListing(p, l) == pc[p] = "idle" /\ l \in {resp'.inst.pk, ctx'[p].inst.pk}
TakesImage(p, i) == pc[p] = "idle" /\ i \in {resp'.img.pk, ctx'[p].img.pk}

\* C14: an update or delete of a listing, or of an image of a listing, requested
\* by a user who is neither the listing's owner nor staff is answered with
\* PermissionDenied and leaves listings and images as they were; a read of a
\* listing is answered for every caller, users and anonymous alike.
C14_OnlyOwnerOrStaffMutates ==
    [][\A p \in Workers :
          /\ \A caller \in Users, l \in ListingIds :
                (/\ Stranger(caller, l)
                 /\ TakesListing(p, l)
                 /\ \/ \E b \in PriceBodies :
                          LoadListing(p, caller, l, validated_data(b))
                    \/ DeleteListing(p, caller, l))
                   => Refused
          /\ \A caller \in Users, i \in DOMAIN images :
                (/\ Stranger(caller, images[i].listing)
                 /\ TakesImage(p, i)
                 /\ \/ \E data \in OrderData : LoadImage(p, caller, i, data)
                    \/ DeleteImage(p, caller, i))
                   => Refused
          /\ \A caller \in Callers, l \in ListingIds :
                (resp'.op = "retrieve_listing" /\ RetrieveListing(p, caller, l))
                   => resp'.errs = {} /\ resp'.inst = InstanceOf(l)]_vars

\* the update of an image of a listing of the staff user has just been refused:
\* it was asked for by an ordinary user, and the image is as it was
C14_Witness ==
    /\ resp.op = "update_image"
    /\ resp.errs = {"PermissionDenied"}
    /\ resp.img.pk \in DOMAIN images
    /\ ImageInstanceOf(resp.img.pk) = resp.img
    /\ listings[resp.img.listing].owner \in Staff

\* C15: the row a create stores has the creating caller as its owner, whatever
\* owner the body names, and no later step changes the owner of a listing,
\* whatever fields the body of an update supplies.
C15_OwnerFixed ==
    [][/\ \A l \in Kept : listings'[l].owner = listings[l].owner
       /\ (resp'.op = "create_listing" /\ resp'.errs = {})
             => \A p \in Workers, caller \in Users, b \in DraftBodies :
                   (\/ CreateListing(p, caller, validated_data(b), MaxListings)
                    \/ CreateListing(p, caller, validated_data(b), MaxGalleries))
                      => /\ resp'.inst.pk \in DOMAIN listings' \ DOMAIN listings
                         /\ listings'[resp'.inst.pk].owner = caller]_vars

\* an update of a listing of an ordinary user has just been stored with a new
\* price, and the listing is still that user's
C15_Witness ==
    /\ resp.op = "update_listing"
    /\ resp.errs = {}
    /\ resp.inst.pk \in DOMAIN listings
    /\ listings[resp.inst.pk].owner \notin Staff
    /\ listings[resp.inst.pk].owner = resp.inst.owner
    /\ listings[resp.inst.pk].price_amount # Null

\* C16: whatever the interleaving of the requests, a lifecycle timestamp that is
\* persisted for a listing is not changed, to null or to another time, by a
\* later write of the listing.
C16_ConcurrentSticky ==
    [][\A l \in Kept : \A x \in {ACTIVE, SOLD, ARCHIVED} :
          StampOf(listings[l], x) # Null
             => StampOf(listings'[l], x) = StampOf(listings[l], x)]_vars

\* C17: in every state, every persisted listing has the region its city is in.
C17_CityInRegionAlways ==
    \A l \in DOMAIN listings : cityRegion[listings[l].city] = listings[l].region

\* t is null or no later than u, u being null or a time
NotAfter(t, u) == \A a \in t, b \in u : a <= b

\* C18: with one request at a time, every persisted listing has timestamps that
\* fit its status: a draft has none; an active listing has published_at and
\* neither sold_at nor archived_at; a sold one has published_at and sold_at; an
\* archived one has archived_at; and sold_at comes with published_at, the
\* times in the order published_at <= sold_at <= archived_at where set.
C18_StatusTimestampConsistency ==
    \A l \in DOMAIN listings :
       LET r == listings[l] IN
       /\ r.status = DRAFT
             => r.published_at = Null /\ r.sold_at = Null /\ r.archived_at = Null
       /\ r.status = ACTIVE
             => r.published_at # Null /\ r.sold_at = Null /\ r.archived_at = Null
       /\ r.status = SOLD => r.published_at # Null /\ r.sold_at # Null
       /\ r.status = ARCHIVED => r.archived_at # Null
       /\ r.sold_at # Null => r.published_at # Null
       /\ NotAfter(r.published_at, r.sold_at)
       /\ NotAfter(r.sold_at, r.archived_at)
       /\ NotAfter(r.published_at, r.archived_at)

\* a listing has gone through active and sold to archived, one write each
C18_Witness ==
    \E l \in DOMAIN listings :
       /\ listings[l].status = ARCHIVED
       /\ listings[l].published_at # Null
       /\ listings[l].sold_at # Null
       /\ listings[l].archived_at # Null
       /\ listings[l].published_at # listings[l].sold_at
       /\ listings[l].sold_at # listings[l].archived_at

\* C19: an image create or update that is stored for a user who is not staff
\* leaves the image in a listing that user owns.
C19_AttachOnlyToOwnListing ==
    [][\A p \in Workers :
          (/\ InFlightImage(p)
           /\ pc'[p] = "idle"
           /\ resp'.errs = {}
           /\ ~is_staff(ctx[p].user))
             => /\ resp'.img.listing \in DOMAIN listings
                /\ listings[resp'.img.listing].owner = ctx[p].user]_vars

\* C20: the images a read of a listing returns are the images of that listing,
\* each once, in ascending sort_order and, for equal sort_order, ascending id;
\* a read that directly follows a read of the same listing returns the same
\* sequence.
C20_ImagesOrdered ==
    [][(resp'.op = "retrieve_listing" /\ resp'.errs = {})
          => LET l == resp'.inst.pk
                 seq == resp'.list
                 ids == {i \in DOMAIN images : images[i].listing = l}
             IN /\ DOMAIN seq = 1..Cardinality(ids)
                /\ {seq[k] : k \in DOMAIN seq} = ids
                /\ \A a, b \in DOMAIN seq :
                      a < b => \/ images[seq[a]].sort_order < images[seq[b]].sort_order
                               \/ /\ images[seq[a]].sort_order = images[seq[b]].sort_order
                                  /\ seq[a] < seq[b]
                /\ (resp.op = "retrieve_listing" /\ resp.errs = {}
                       /\ resp.inst.pk = l)
                      => seq = resp.list]_vars

\* a listing has just been read whose second image has the lower sort_order: it
\* comes first
C20_Witness ==
    /\ resp.op = "retrieve_listing"
    /\ resp.errs = {}
    /\ DOMAIN resp.list = 1..2
    /\ resp.list[1] > resp.list[2]
    /\ images[resp.list[1]].sort_order < images[resp.list[2]].sort_order

====
